---- MODULE Spec2Model ----
(***************************************************************************)
(* Model of iterator_sorting.h (duplicate removal by sorting a vector of   *)
(* iterators) and of the way bench.cpp calls it.                           *)
(*                                                                         *)
(* An iterator into the container is modelled as a 1-based position:       *)
(* position p refers to slot vec[p], and Len(vec) + 1 is the past-the-end  *)
(* iterator.  The index j of stable_uniquify is kept 0-based as in the     *)
(* code, so the code's uniqIts[j] is uniqIts[j + 1] here.                  *)
(***************************************************************************)
EXTENDS Integers, Sequences, FiniteSets, TLC

\* Longest container the model enumerates.
MaxLen == 4
\* Position keys are 1..MaxKey.
MaxKey == 2

\* bench.cpp: Position (the projected key) and Color (the non-key field).
Position == 1..MaxKey
Color == {0, 1}
\* bench.cpp: Point3D = tuple<Position, Color>.
Point3D == [pos : Position, color : Color]

\* The comparator/equality pairs the callers use: "whole" is the default
\* std::less<> / std::equal_to<> on the whole tuple, "pos" is posLess/posEqual.
Modes == {"whole", "pos"}

\* std::less<> on tuple<Position, Color>: lexicographic.
less(a, b) == \/ a.pos < b.pos
              \/ a.pos = b.pos /\ a.color < b.color
\* std::equal_to<> on tuple<Position, Color>: all fields equal.
equal_to(a, b) == a.pos = b.pos /\ a.color = b.color

\* Mutant of posLess: the projection is forgotten, the whole point is compared.
posLessWhole(a, b) == less(a, b)
\* bench.cpp posLess: compares get<0> only.
posLess(a, b) == a.pos < b.pos
\* bench.cpp posEqual: compares get<0> only.
posEqual(a, b) == a.pos = b.pos

\* The Compare argument, by mode.
comp(m, a, b) == IF m = "pos" THEN posLess(a, b) ELSE less(a, b)
\* The EqualPred argument, by mode.
equalPred(m, a, b) == IF m = "pos" THEN posEqual(a, b) ELSE equal_to(a, b)

\* The containers the model starts from: every vector<Point3D> up to MaxLen.
Containers == UNION {[1..n -> Point3D] : n \in 0..MaxLen}

\* The operations of iterator_sorting.h.
Ops == {"unstable_unique_iterators", "stable_unique_iterators",
        "stable_uniquify", "stable_uniquify_vector"}

----------------------------------------------------------------------------
(* Library algorithms, by their contracts. *)

\* for (It it = begin; it != end; ++it) v.push_back(it);
RECURSIVE IteratorRange(_, _)
IteratorRange(b, e) == IF b >= e THEN <<>> ELSE <<b>> \o IteratorRange(b + 1, e)

\* Mutant of InsertStable: x goes before the elements equivalent to it, so the
\* sort reverses the arrival order of equivalent elements (not stable).
RECURSIVE InsertBeforeEqual(_, _, _, _)
InsertBeforeEqual(c, m, s, x) ==
  IF s = <<>> THEN <<x>>
  ELSE IF ~comp(m, c[Head(s)], c[x]) THEN <<x>> \o s
       ELSE <<Head(s)>> \o InsertBeforeEqual(c, m, Tail(s), x)

\* Insert iterator x into the sorted iterator sequence s after every element
\* that is not greater than it (keeps equivalent elements in arrival order).
RECURSIVE InsertStable(_, _, _, _)
InsertStable(c, m, s, x) ==
  IF s = <<>> THEN <<x>>
  ELSE IF comp(m, c[x], c[Head(s)]) THEN <<x>> \o s
       ELSE <<Head(s)>> \o InsertStable(c, m, Tail(s), x)

\* std::stable_sort of the iterator sequence s by comp on the pointed-to values.
RECURSIVE StableSort(_, _, _)
StableSort(c, m, s) ==
  IF s = <<>> THEN <<>>
  ELSE InsertStable(c, m, StableSort(c, m, SubSeq(s, 1, Len(s) - 1)), s[Len(s)])

\* The set of elements of a sequence.
Range(s) == {s[i] : i \in DOMAIN s}

\* Mutant of SortOutcomes: the value sort is left out of order (any
\* arrangement of the iterators comes out).
RECURSIVE SortOutcomesUnsorted(_, _, _)
SortOutcomesUnsorted(c, m, S) ==
  IF S = {} THEN {<<>>}
  ELSE UNION {{<<x>> \o t : t \in SortOutcomesUnsorted(c, m, S \ {x})} : x \in S}

\* std::sort of the iterator sequence by comp on the pointed-to values: every
\* arrangement of the iterators in S in which no element precedes a smaller
\* one; the order among equivalent elements is unspecified.
RECURSIVE SortOutcomes(_, _, _)
SortOutcomes(c, m, S) ==
  IF S = {} THEN {<<>>}
  ELSE UNION {{<<x>> \o t : t \in SortOutcomes(c, m, S \ {x})} :
              x \in {y \in S : \A z \in S : ~comp(m, c[z], c[y])}}

\* Mutant of UniqueFrom: of a run of equal elements the last one is kept.
RECURSIVE UniqueFromKeepLast(_, _, _, _)
UniqueFromKeepLast(c, m, kept, s) ==
  IF s = <<>> THEN kept
  ELSE IF kept # <<>> /\ equalPred(m, c[kept[Len(kept)]], c[Head(s)])
       THEN UniqueFromKeepLast(c, m, [kept EXCEPT ![Len(kept)] = Head(s)], Tail(s))
       ELSE UniqueFromKeepLast(c, m, Append(kept, Head(s)), Tail(s))

\* std::unique with equalPred on the pointed-to values, followed by erase of
\* the tail: an element is kept unless it equals the last element kept.
RECURSIVE UniqueFrom(_, _, _, _)
UniqueFrom(c, m, kept, s) ==
  IF s = <<>> THEN kept
  ELSE IF kept # <<>> /\ equalPred(m, c[kept[Len(kept)]], c[Head(s)])
       THEN UniqueFrom(c, m, kept, Tail(s))
       ELSE UniqueFrom(c, m, Append(kept, Head(s)), Tail(s))

\* Mutant of Unique: the erase of the tail is forgotten, the vector keeps its
\* length (std::unique leaves the moved-from tail in place).
UniqueNoErase(c, m, s) ==
  UniqueFrom(c, m, <<>>, s)
    \o SubSeq(s, Len(UniqueFrom(c, m, <<>>, s)) + 1, Len(s))

\* v.erase(std::unique(v.begin(), v.end(), equalPred on values), v.end()).
Unique(c, m, s) == UniqueFrom(c, m, <<>>, s)

\* Insert position x into the ascending position sequence s.
RECURSIVE InsertIt(_, _)
InsertIt(s, x) ==
  IF s = <<>> THEN <<x>>
  ELSE IF x < Head(s) THEN <<x>> \o s
       ELSE <<Head(s)>> \o InsertIt(Tail(s), x)

\* Mutant of SortIts: the sort back to position order is left out.
SortItsOmitted(s) == s

\* std::sort(v.begin(), v.end()) on iterators: ascending position.
RECURSIVE SortIts(_)
SortIts(s) == IF s = <<>> THEN <<>>
              ELSE InsertIt(SortIts(Tail(s)), Head(s))

\* Mutant of IterSwap: the element is copied to the write cursor, not exchanged.
IterSwapOverwrite(c, a, b) == [c EXCEPT ![b] = c[a]]

\* Mutant of IterSwap: the copy goes the wrong way, from the write cursor.
IterSwapWrongWay(c, a, b) == [c EXCEPT ![a] = c[b]]

\* std::iter_swap(a, b) on the container.
IterSwap(c, a, b) == [c EXCEPT ![a] = c[b], ![b] = c[a]]

\* v.erase(first, v.end()): the container cut at first.
Erase(c, first) == SubSeq(c, 1, first - 1)

\* Mutant of RemoveIfSeen: the negation of insert().second is missing, so an
\* element is removed when its position was newly inserted.
RECURSIVE RemoveIfSeenInverted(_, _, _)
RemoveIfSeenInverted(s, seenPositions, kept) ==
  IF s = <<>> THEN [v |-> kept, seenPositions |-> seenPositions]
  ELSE IF Head(s).pos \in seenPositions
       THEN RemoveIfSeenInverted(Tail(s), seenPositions, Append(kept, Head(s)))
       ELSE RemoveIfSeenInverted(Tail(s), seenPositions \cup {Head(s).pos}, kept)

\* bench.cpp: v.erase(std::remove_if(v.begin(), v.end(), pred), v.end()) where
\* pred inserts get<0>(point) into seenPositions and is true when the insert
\* reports the position as already present.  s is what is left to scan.
RECURSIVE RemoveIfSeen(_, _, _)
RemoveIfSeen(s, seenPositions, kept) ==
  IF s = <<>> THEN [v |-> kept, seenPositions |-> seenPositions]
  ELSE IF Head(s).pos \in seenPositions
       THEN RemoveIfSeen(Tail(s), seenPositions, kept)
       ELSE RemoveIfSeen(Tail(s), seenPositions \cup {Head(s).pos},
                         Append(kept, Head(s)))

----------------------------------------------------------------------------
VARIABLES
  input,            \* the container's contents when the current call started
  vec,              \* the caller's container
  begin, end,       \* the range [begin, end) of the current call
  mode,             \* the comparator/equality pair of the current call
  op,               \* the operation called
  pc,               \* position inside the operation
  v,                \* the local vector of iterators of *_unique_iterators
  uniqIts,          \* stable_uniquify: the result of stable_unique_iterators
  uniqueRegionEnd,  \* stable_uniquify: the write cursor
  j,                \* stable_uniquify: index of the next unique iterator
  it,               \* stable_uniquify: the scan iterator
  ret,              \* the value returned to the caller
  round,            \* 1 for the first call, 2 for a repeated call on its result
  firstEnd,         \* the end of the range the first call was given
  baseline          \* bench.cpp: the outcome of the std::unordered_set strategy

vars == <<input, vec, begin, end, mode, op, pc, v, uniqIts, uniqueRegionEnd,
          j, it, ret, round, firstEnd, baseline>>

\* What a call returns: a vector of iterators, or one iterator.
NoReturn == [none |-> TRUE]
ReturnIterators(s) == [iterators |-> s]
ReturnIterator(p) == [iterator |-> p]

\* The std::unordered_set strategy has not run.
NotRun == [run |-> FALSE]

\* A call of one operation on a range of a container.  The vector form takes
\* the whole container and the default comparator and equality.
Init ==
  /\ vec \in Containers
  /\ input = vec
  /\ op \in Ops
  /\ begin \in 1..(Len(vec) + 1)
  /\ end \in begin..(Len(vec) + 1)
  /\ mode \in Modes
  /\ op = "stable_uniquify_vector" =>
        begin = 1 /\ end = Len(vec) + 1 /\ mode = "whole"
  /\ pc = "create"
  /\ v = <<>>
  /\ uniqIts = <<>>
  /\ uniqueRegionEnd = begin
  /\ j = 0
  /\ it = begin
  /\ ret = NoReturn
  /\ round = 1
  /\ firstEnd = end
  /\ baseline = NotRun

\* Create vector of iterators.
CreateIterators ==
  /\ pc = "create"
  /\ v' = IteratorRange(begin, end)
  /\ pc' = "sort"
  /\ UNCHANGED <<input, vec, begin, end, mode, op, uniqIts, uniqueRegionEnd,
                 j, it, ret, round, firstEnd, baseline>>

\* unstable_unique_iterators: std::sort by pointed-to value.
UnstableSortByValue ==
  /\ pc = "sort"
  /\ op = "unstable_unique_iterators"
  /\ v' \in SortOutcomes(vec, mode, Range(v))
  /\ pc' = "unique"
  /\ UNCHANGED <<input, vec, begin, end, mode, op, uniqIts, uniqueRegionEnd,
                 j, it, ret, round, firstEnd, baseline>>

\* Mutant of StableSortByValue: the elements themselves are sorted, as in the
\* benchmark's direct_vector_stable_sort, instead of the iterators.
StableSortByValueInPlace ==
  /\ pc = "sort"
  /\ op # "unstable_unique_iterators"
  /\ vec' = [p \in DOMAIN vec |->
               IF p \in begin..(end - 1)
                 THEN vec[StableSort(vec, mode, v)[p - begin + 1]]
                 ELSE vec[p]]
  /\ pc' = "unique"
  /\ UNCHANGED <<input, begin, end, mode, op, v, uniqIts, uniqueRegionEnd,
                 j, it, ret, round, firstEnd, baseline>>

\* stable_unique_iterators: std::stable_sort by pointed-to value.
StableSortByValue ==
  /\ pc = "sort"
  /\ op # "unstable_unique_iterators"
  /\ v' = StableSort(vec, mode, v)
  /\ pc' = "unique"
  /\ UNCHANGED <<input, vec, begin, end, mode, op, uniqIts, uniqueRegionEnd,
                 j, it, ret, round, firstEnd, baseline>>

\* v.erase(std::unique(...), v.end()).
RemoveEqual ==
  /\ pc = "unique"
  /\ v' = Unique(vec, mode, v)
  /\ pc' = "sortback"
  /\ UNCHANGED <<input, vec, begin, end, mode, op, uniqIts, uniqueRegionEnd,
                 j, it, ret, round, firstEnd, baseline>>

\* std::sort(v.begin(), v.end()): sort vector of iterators back.
SortBack ==
  /\ pc = "sortback"
  /\ v' = SortIts(v)
  /\ pc' = "return_v"
  /\ UNCHANGED <<input, vec, begin, end, mode, op, uniqIts, uniqueRegionEnd,
                 j, it, ret, round, firstEnd, baseline>>

\* return v; to the caller of *_unique_iterators.
ReturnV ==
  /\ pc = "return_v"
  /\ op \in {"unstable_unique_iterators", "stable_unique_iterators"}
  /\ ret' = ReturnIterators(v)
  /\ pc' = "done"
  /\ UNCHANGED <<input, vec, begin, end, mode, op, v, uniqIts, uniqueRegionEnd,
                 j, it, round, firstEnd, baseline>>

\* stable_uniquify: uniqIts receives the result; the loop variables are set.
LoopInit ==
  /\ pc = "return_v"
  /\ op \in {"stable_uniquify", "stable_uniquify_vector"}
  /\ uniqIts' = v
  /\ uniqueRegionEnd' = begin
  /\ j' = 0
  /\ it' = begin
  /\ pc' = "loop"
  /\ UNCHANGED <<input, vec, begin, end, mode, op, v, ret, round, firstEnd, baseline>>

\* Mutant of LoopCond: the bound on j is missing.
LoopCondNoSize(i, e, k, size) == i # e

\* Mutant of LoopCond: the scan stops one position before end.
LoopCondStopsEarly(i, e, k, size) == i + 1 # e /\ k # size

\* The loop condition: it != end && j != uniqIts.size().
LoopCond(i, e, k, size) == i # e /\ k # size

\* Mutant of LoopSwap: the write cursor is not advanced after the swap.
LoopSwapNoAdvance ==
  /\ pc = "loop"
  /\ LoopCond(it, end, j, Len(uniqIts))
  /\ it = uniqIts[j + 1]
  /\ vec' = IterSwap(vec, it, uniqueRegionEnd)
  /\ j' = j + 1
  /\ it' = it + 1
  /\ UNCHANGED <<input, begin, end, mode, op, pc, v, uniqIts, uniqueRegionEnd,
                 ret, round, firstEnd, baseline>>

\* Loop body when it is the next unique iterator: swap, ++j, ++uniqueRegionEnd.
LoopSwap ==
  /\ pc = "loop"
  /\ LoopCond(it, end, j, Len(uniqIts))
  /\ it = uniqIts[j + 1]
  /\ vec' = IterSwap(vec, it, uniqueRegionEnd)
  /\ j' = j + 1
  /\ uniqueRegionEnd' = uniqueRegionEnd + 1
  /\ it' = it + 1
  /\ UNCHANGED <<input, begin, end, mode, op, pc, v, uniqIts, ret, round, firstEnd, baseline>>

\* Loop body when it is not the next unique iterator: only ++it.
LoopSkip ==
  /\ pc = "loop"
  /\ LoopCond(it, end, j, Len(uniqIts))
  /\ it # uniqIts[j + 1]
  /\ it' = it + 1
  /\ UNCHANGED <<input, vec, begin, end, mode, op, pc, v, uniqIts,
                 uniqueRegionEnd, j, ret, round, firstEnd, baseline>>

\* Loop exit; the range form returns uniqueRegionEnd.
LoopExit ==
  /\ pc = "loop"
  /\ ~LoopCond(it, end, j, Len(uniqIts))
  /\ IF op = "stable_uniquify"
       THEN ret' = ReturnIterator(uniqueRegionEnd) /\ pc' = "done"
       ELSE ret' = ret /\ pc' = "erase"
  /\ UNCHANGED <<input, vec, begin, end, mode, op, v, uniqIts,
                 uniqueRegionEnd, j, it, round, firstEnd, baseline>>

\* The vector form: return v.erase(<range form's result>, v.end()).  erase
\* returns the iterator following the last removed element, the new end().
\* (The call names IteratorAllocator as the range form's second template
\* argument, which is Compare; the model takes the default comparator and
\* equality the vector form is documented to use.)
EraseSuffix ==
  /\ pc = "erase"
  /\ vec' = Erase(vec, uniqueRegionEnd)
  /\ ret' = ReturnIterator(Len(vec') + 1)
  /\ pc' = "done"
  /\ UNCHANGED <<input, begin, end, mode, op, v, uniqIts, uniqueRegionEnd,
                 j, it, round, firstEnd, baseline>>

\* The caller applies stable_uniquify again to the result of the first call:
\* the range form to the unique prefix [begin, ret), the vector form to the
\* reduced container.
CallAgain ==
  /\ pc = "done"
  /\ round = 1
  /\ op \in {"stable_uniquify", "stable_uniquify_vector"}
  /\ round' = 2
  /\ firstEnd' = end
  /\ input' = vec
  /\ end' = ret.iterator
  /\ pc' = "create"
  /\ v' = <<>>
  /\ uniqIts' = <<>>
  /\ uniqueRegionEnd' = begin
  /\ j' = 0
  /\ it' = begin
  /\ ret' = NoReturn
  /\ UNCHANGED <<vec, begin, mode, op, baseline>>

\* bench.cpp: after the iterator-sorting strategy the benchmark runs the
\* std::unordered_set strategy on its own copy of the same whole input and
\* reports seenPositions.size() as the number of uniques.
UnorderedSetBaseline ==
  /\ pc = "done"
  /\ round = 1
  /\ begin = 1 /\ end = Len(input) + 1
  /\ baseline' =
       [v |-> RemoveIfSeen(input, {}, <<>>).v,
        numUniques |-> Cardinality(RemoveIfSeen(input, {}, <<>>).seenPositions)]
  /\ pc' = "compared"
  /\ UNCHANGED <<input, vec, begin, end, mode, op, v, uniqIts, uniqueRegionEnd,
                 j, it, ret, round, firstEnd>>

Next ==
  \/ CreateIterators
  \/ UnstableSortByValue
  \/ StableSortByValue
  \/ RemoveEqual
  \/ SortBack
  \/ ReturnV
  \/ LoopInit
  \/ LoopSwap
  \/ LoopSkip
  \/ LoopExit
  \/ EraseSuffix
  \/ CallAgain
  \/ UnorderedSetBaseline

Spec == Init /\ [][Next]_vars

----------------------------------------------------------------------------
(* Vocabulary of the properties, stated on the input of the current call.  *)

\* The positions of the range [begin, end).
Positions == begin..(end - 1)

\* Two positions of the input hold equivalent elements.
SameClass(p, q) == equalPred(mode, input[p], input[q])

\* The first occurrences: positions with no equivalent element before them.
FirstPositions == {p \in Positions : \A q \in Positions : q < p => ~SameClass(q, p)}

\* A sequence of positions is strictly ascending.
Ascending(s) == \A i \in DOMAIN s : \A k \in DOMAIN s : i < k => s[i] < s[k]

\* The number of first occurrences before p.
Rank(p) == Cardinality({q \in FirstPositions : q < p})

\* How often x occurs in the sequence s.
Count(s, x) == Cardinality({i \in DOMAIN s : s[i] = x})

IteratorOps == {"unstable_unique_iterators", "stable_unique_iterators"}
UniquifyOps == {"stable_uniquify", "stable_uniquify_vector"}

----------------------------------------------------------------------------
\* C1: stable_unique_iterators returns positions that are strictly ascending,
\* one per equivalence class of the range, each the first occurrence of its
\* class.  Checked on the value returned to a caller and on the value the
\* range form of stable_uniquify receives as uniqIts.
C1_StableFirstOccurrences ==
  /\ (pc = "done" /\ op = "stable_unique_iterators") =>
       /\ Ascending(ret.iterators)
       /\ Range(ret.iterators) = FirstPositions
       /\ \A p \in Positions :
            Cardinality({i \in DOMAIN ret.iterators :
                           SameClass(ret.iterators[i], p)}) = 1
  /\ (pc = "loop" /\ op \in UniquifyOps) =>
       /\ Ascending(uniqIts)
       /\ Range(uniqIts) = FirstPositions

\* A call returned with a duplicate skipped before a later survivor.
C1_Witness ==
  /\ pc = "done" /\ op = "stable_unique_iterators"
  /\ Len(ret.iterators) >= 2
  /\ \E p \in Positions : p \notin Range(ret.iterators)
                          /\ \E i \in DOMAIN ret.iterators : ret.iterators[i] > p

\* C2: the range form returns begin + (number of classes) and leaves in
\* [begin, r) the first-occurrence elements in their original relative order.
C2_RangeFormPrefix ==
  (pc = "done" /\ op = "stable_uniquify") =>
    /\ ret.iterator = begin + Cardinality(FirstPositions)
    /\ \A p \in FirstPositions : vec[begin + Rank(p)] = input[p]

\* A call of the range form that moved a later survivor over a duplicate.
C2_Witness ==
  /\ pc = "done" /\ op = "stable_uniquify" /\ round = 1
  /\ ret.iterator < end
  /\ Cardinality(FirstPositions) >= 2
  /\ \E p \in FirstPositions : begin + Rank(p) # p /\ vec[p] # input[p]

\* C3: in every state of the range form, hence after every swap and after the
\* return, [begin, end) holds the same multiset of elements as at the call,
\* the slots outside the range are untouched and the length is unchanged.
C3_ValuePreservation ==
  op = "stable_uniquify" =>
    /\ Len(vec) = Len(input)
    /\ \A x \in Point3D :
         Cardinality({p \in Positions : vec[p] = x})
           = Cardinality({p \in Positions : input[p] = x})
    /\ \A p \in DOMAIN vec : p \notin Positions => vec[p] = input[p]

\* A swap inside the loop has exchanged two different elements.
C3_Witness ==
  /\ op = "stable_uniquify" /\ pc = "loop" /\ j >= 2
  /\ vec # input

\* The first-occurrence elements of the input in original order.
FirstSeq ==
  [k \in 1..Cardinality(FirstPositions) |->
     input[CHOOSE p \in FirstPositions : Rank(p) = k - 1]]

\* What a call would return if it returned a container.
ReturnContainer(s) == [container |-> s]

\* C4: the vector form leaves the first-occurrence elements in original order
\* in the container and returns the reduced container to the caller.
C4_VectorFormReturnsContainer ==
  (pc = "done" /\ op = "stable_uniquify_vector") =>
    /\ vec = FirstSeq
    /\ ret = ReturnContainer(FirstSeq)

\* C5: for every outcome of the non-stable sort, unstable_unique_iterators
\* returns strictly ascending positions of [begin, end), exactly one per
\* equivalence class of the range.
C5_UnstableOnePerClass ==
  (pc = "done" /\ op = "unstable_unique_iterators") =>
    /\ Ascending(ret.iterators)
    /\ Range(ret.iterators) \subseteq Positions
    /\ \A p \in Positions :
         Cardinality({i \in DOMAIN ret.iterators :
                        SameClass(ret.iterators[i], p)}) = 1

\* The unstable form returned a representative that is not a first occurrence.
C5_Witness ==
  /\ pc = "done" /\ op = "unstable_unique_iterators"
  /\ \E i \in DOMAIN ret.iterators : ret.iterators[i] \notin FirstPositions

NoDuplicates ==
  \A p \in Positions : \A q \in Positions : p # q => ~SameClass(p, q)

\* C7: the number of positions stable_unique_iterators returns, and the length
\* of the prefix of stable_uniquify, is at most the length of the range and
\* equals it exactly when the range has no two equivalent elements.
C7_SizeBound ==
  /\ (pc = "done" /\ op = "stable_unique_iterators") =>
       /\ Len(ret.iterators) <= end - begin
       /\ (Len(ret.iterators) = end - begin) <=> NoDuplicates
  /\ (pc = "done" /\ op = "stable_uniquify") =>
       /\ ret.iterator - begin <= end - begin
       /\ (ret.iterator - begin = end - begin) <=> NoDuplicates

\* A duplicate-free range of three or more elements came back in full.
C7_Witness ==
  /\ pc = "done" /\ op = "stable_unique_iterators"
  /\ end - begin >= 3
  /\ NoDuplicates
  /\ ret.iterators = IteratorRange(begin, end)

\* C8: the position-sort operations never write to the container; a step
\* changes the container only inside stable_uniquify (its loop or its erase).
C8_Frame ==
  [][(vec' # vec) => (op \in UniquifyOps /\ pc \in {"loop", "erase"})]_vars

\* A position-sort call removed duplicates and the container is as it was.
C8_Witness ==
  /\ pc = "done" /\ op \in IteratorOps
  /\ Len(ret.iterators) < end - begin
  /\ Len(ret.iterators) >= 2
  /\ vec = input

\* C9: an empty range gives an empty sequence, and begin without a swap; the
\* loop reads uniqIts only below its length and swaps only slots of the range.
C9_NoFaults ==
  /\ (pc = "done" /\ begin = end /\ op \in IteratorOps) => ret.iterators = <<>>
  /\ (pc = "done" /\ begin = end /\ op = "stable_uniquify") =>
       ret.iterator = begin /\ j = 0 /\ vec = input
  /\ (pc = "loop" /\ LoopCond(it, end, j, Len(uniqIts))) =>
       /\ j < Len(uniqIts)
       /\ it \in Positions
       /\ uniqueRegionEnd \in Positions
  /\ pc = "loop" => j <= Len(uniqIts) /\ uniqueRegionEnd <= it /\ it <= end

\* The range form returned on an empty range of a non-empty container.
C9_Witness ==
  /\ pc = "done" /\ op = "stable_uniquify" /\ round = 1
  /\ begin = end
  /\ Len(vec) >= 1

\* Two records of the range with the same key and different colours, the
\* first of them a first occurrence.
ProjectedPair(p, q) ==
  /\ p \in FirstPositions /\ q \in Positions /\ p < q
  /\ input[p].pos = input[q].pos
  /\ input[p].color # input[q].color

\* C10: with posLess/posEqual, of two records with equal position and
\* different colour the stable operations keep the first whole record and the
\* later record is not among the survivors nor in the compacted prefix.
C10_Projection ==
  /\ (pc = "done" /\ mode = "pos" /\ op = "stable_unique_iterators") =>
       \A p \in Positions : \A q \in Positions :
         ProjectedPair(p, q) =>
           /\ p \in Range(ret.iterators)
           /\ q \notin Range(ret.iterators)
  /\ (pc = "done" /\ mode = "pos" /\ op = "stable_uniquify") =>
       \A p \in Positions : \A q \in Positions :
         ProjectedPair(p, q) =>
           /\ vec[begin + Rank(p)] = input[p]
           /\ \A k \in begin..(ret.iterator - 1) : vec[k] # input[q]

\* The range form compacted a range holding such a pair behind another record.
C10_Witness ==
  /\ pc = "done" /\ mode = "pos" /\ op = "stable_uniquify" /\ round = 1
  /\ \E p \in Positions : \E q \in Positions :
       ProjectedPair(p, q) /\ p > begin

\* The operations that run the phases of stable_unique_iterators.
StableOps == {"stable_unique_iterators"} \cup UniquifyOps

\* The markers of each class are contiguous in the marker sequence s.
ClassesContiguous(s) ==
  \A a \in DOMAIN s : \A b \in DOMAIN s : \A c \in DOMAIN s :
    (a < b /\ b < c /\ SameClass(s[a], s[c])) => SameClass(s[a], s[b])

\* Within a class the markers of s appear in ascending original position.
ClassesInOrder(s) ==
  \A a \in DOMAIN s : \A b \in DOMAIN s :
    (a < b /\ SameClass(s[a], s[b])) => s[a] < s[b]

\* C11: in stable_unique_iterators, after the stable sort the markers of a
\* class are contiguous and ascending; the collapse then leaves exactly the
\* first occurrence of every class; and the final sort only reorders the
\* survivors, into ascending position.
C11_PhaseOrdering ==
  [][/\ (pc = "unique" /\ op \in StableOps) =>
          /\ ClassesContiguous(v) /\ ClassesInOrder(v)
          /\ Range(v) = Positions /\ Len(v) = end - begin
          /\ Range(v') = FirstPositions
          /\ Len(v') = Cardinality(FirstPositions)
     /\ (pc = "sortback" /\ op \in StableOps) =>
          /\ Range(v') = Range(v) /\ Len(v') = Len(v)
          /\ Ascending(v')
    ]_vars

\* The collapse dropped a marker and left the survivors out of position
\* order, so the final sort has something to reorder.
C11_Witness ==
  /\ pc = "sortback" /\ op = "stable_unique_iterators"
  /\ Len(v) < end - begin
  /\ ~Ascending(v)

\* C12: at the start of every iteration of the compaction scan the write
\* cursor is begin + j and not beyond the scan position, every slot from the
\* scan position on still holds its original element, and [begin, cursor)
\* holds the original elements of the first j unique positions in order.
C12_LoopInvariant ==
  pc = "loop" =>
    /\ uniqueRegionEnd = begin + j
    /\ uniqueRegionEnd <= it
    /\ \A p \in Positions : p >= it => vec[p] = input[p]
    /\ \A k \in 0..(j - 1) : vec[begin + k] = input[uniqIts[k + 1]]

\* An iteration starts with the cursor behind the scan position, a changed
\* container and a unique position still to consume.
C12_Witness ==
  /\ pc = "loop" /\ LoopCond(it, end, j, Len(uniqIts))
  /\ j >= 2
  /\ uniqueRegionEnd < it
  /\ vec # input

\* C13: every iteration of the compaction scan advances the scan position by
\* one and never past end, so the loop ends after at most end - begin
\* iterations; it leaves as soon as the last unique position is consumed, with
\* every marker consumed and the write cursor, which the range form returns,
\* at the end of the compacted prefix.
C13_LoopTerminates ==
  [][pc = "loop" =>
       IF pc' = "loop"
         THEN /\ it' = it + 1
              /\ it' <= end
              /\ it' - begin <= end - begin
         ELSE /\ j = Len(uniqIts)
              /\ it - begin <= end - begin
              /\ it = (IF uniqIts = <<>> THEN begin
                       ELSE uniqIts[Len(uniqIts)] + 1)
              /\ uniqueRegionEnd = begin + Len(uniqIts)
              /\ (op = "stable_uniquify" =>
                    ret' = ReturnIterator(begin + Len(uniqIts)))
    ]_vars

\* The scan left before reaching end, all of several markers consumed.
C13_Witness ==
  /\ pc = "done" /\ op = "stable_uniquify" /\ round = 1
  /\ it < end
  /\ j = Len(uniqIts) /\ j >= 2
  /\ ret = ReturnIterator(uniqueRegionEnd)

\* C14: on the same input the std::unordered_set strategy retains the same
\* elements in the same order as stable_uniquify with posLess/posEqual, and
\* every strategy reports the same number of uniques.
C14_BaselineEquivalence ==
  (pc = "compared" /\ mode = "pos") =>
    /\ Len(baseline.v) = baseline.numUniques
    /\ op = "stable_uniquify" =>
         /\ SubSeq(vec, begin, ret.iterator - 1) = baseline.v
         /\ ret.iterator - begin = baseline.numUniques
    /\ op \in IteratorOps => Len(ret.iterators) = baseline.numUniques
    /\ op = "stable_unique_iterators" =>
         [k \in DOMAIN ret.iterators |-> input[ret.iterators[k]]] = baseline.v

\* Both strategies ran on an input in which a duplicate position sits
\* between two retained elements.
C14_Witness ==
  /\ pc = "compared" /\ mode = "pos" /\ op = "stable_uniquify"
  /\ baseline.numUniques >= 2
  /\ Len(baseline.v) < Len(input)
  /\ vec # input

====
